---- MODULE Spec2Model ----
(***************************************************************************)
(* Model of make_raindrop_chart (src/raindrop.py): one call of the         *)
(* function, from its parameters to the returned tuple or the raised       *)
(* exception.  The acquisition collaborator (yf.download) is a             *)
(* nondeterministic choice of a time-ordered bar sequence.                 *)
(*                                                                         *)
(* Units.  Time is counted in ticks from midnight of the first bar's day,  *)
(* which is where pd.Grouper anchors its bins (origin "start_day"); the    *)
(* bin widths drawn here divide the day, so the Grouper's bins and         *)
(* Series.dt.floor's bins have the same edges.  Prices are integers and    *)
(* the column Typical holds FOUR TIMES the typical price (O+H+L+C), which  *)
(* keeps the arithmetic in the integers; a VWAP is the exact fraction      *)
(* num/den in that unit and the margin is scaled by four where the two     *)
(* are compared.  Floating-point rounding is not modelled.                 *)
(***************************************************************************)
EXTENDS Integers, Sequences, FiniteSets

\* ---------------------------------------------------------------- bounds
MaxBars == 3
MaxT == 4
MaxVol == 1
MaxScale == 2

\* line 72: volume_divider = df["Volume"].max() / 1000
VolumeScale == 1000

\* the value pandas gives an aggregate of an empty bin (first/max/min/last)
NaN == 0 - 1

\* Python's None, and the truthiness test `not x` of line 17
None == "None"
Falsy(x) == x = None \/ x = ""

Tickers == {"AAPL"}
Starts == {None, "", "2024-01-02"}
Ends == {None, "", "2024-01-09"}
\* frequency_value, in ticks (even, so that half of it is a whole number)
Widths == {2, 4}
\* margin, in price units
Margins == {0, 1}

\* <<Open, High, Low, Close>> of a bar
Candles == {<<1, 1, 1, 1>>, <<1, 3, 1, 3>>}

Bars ==
  {[Datetime |-> t, Open |-> k[1], High |-> k[2], Low |-> k[3], Close |-> k[4],
    Volume |-> v] : t \in 0..MaxT, k \in Candles, v \in 0..MaxVol}

\* the bars that may follow the sequence s in time order
Later(s) ==
  IF s = <<>> THEN Bars
  ELSE {b \in Bars : b.Datetime > s[Len(s)].Datetime}

\* the bar sequences of at most n bars with strictly increasing timestamps
RECURSIVE BarSeqsUpTo(_)
BarSeqsUpTo(n) ==
  IF n = 0 THEN {<<>>}
  ELSE LET S == BarSeqsUpTo(n - 1)
       IN  S \cup UNION {{Append(s, b) : b \in Later(s)} :
                           s \in {x \in S : Len(x) = n - 1}}

BarSeqs == BarSeqsUpTo(MaxBars)

\* ------------------------------------------------------------- helpers
RECURSIVE SumField(_, _)
SumField(rows, f) ==
  IF rows = <<>> THEN 0 ELSE rows[1][f] + SumField(Tail(rows), f)

MaxField(rows, f) ==
  CHOOSE m \in {rows[i][f] : i \in 1..Len(rows)} :
    \A i \in 1..Len(rows) : rows[i][f] <= m

MinField(rows, f) ==
  CHOOSE m \in {rows[i][f] : i \in 1..Len(rows)} :
    \A i \in 1..Len(rows) : m <= rows[i][f]

\* the elements of a finite set of integers, ascending
RECURSIVE SortedSeq(_)
SortedSeq(S) ==
  IF S = {} THEN <<>>
  ELSE LET m == CHOOSE x \in S : \A y \in S : x <= y
       IN  <<m>> \o SortedSeq(S \ {m})

\* Timestamp.floor(freq) / the left edge of the Grouper bin holding t
Floor(t, w) == (t \div w) * w

\* numpy's round-half-to-even of the fraction a/b, b > 0
RoundHalfEven(a, b) ==
  LET q == a \div b
      r == a % b
  IN  IF 2 * r < b THEN q
      ELSE IF 2 * r > b THEN q + 1
      ELSE IF q % 2 = 0 THEN q ELSE q + 1

\* ---------------------------------------------------------- exceptions
MissingDatesError ==
  [type |-> "ValueError", msg |-> <<"Start and End dates must be provided.">>]

NoDataError(tk, s, e) ==
  [type |-> "ValueError",
   msg |-> <<"No data returned for ", tk, " between ", s, " and ", e,
             ". Check if the ticker is correct or if there's data available in this range.">>]

AggregationEmptyError(tk) ==
  [type |-> "ValueError",
   msg |-> <<"No data available after processing for ", tk,
             ". Try using a different date range or frequency.">>]

\* reading the local vwap_open at line 182 when no iteration assigned it
UnboundLocalError ==
  [type |-> "UnboundLocalError",
   msg |-> <<"local variable 'vwap_open' referenced before assignment">>]

Wrap_reraise(e) == e

\* lines 184-185: except Exception as e: raise ValueError(f"...: {e}")
Wrap(e) ==
  [type |-> "ValueError",
   msg |-> <<"An error occurred while generating the chart: ">> \o e.msg]

\* --------------------------------------------------- the transformation
\* lines 47-49: Typical (times four) and QTY*PX per bar
WithTypical(d) ==
  [i \in 1..Len(d) |->
     LET ty == d[i].Open + d[i].High + d[i].Low + d[i].Close
     IN  [Datetime |-> d[i].Datetime, Open |-> d[i].Open, High |-> d[i].High,
          Low |-> d[i].Low, Close |-> d[i].Close, Volume |-> d[i].Volume,
          Typical |-> ty, QTYPX |-> d[i].Volume * ty]]

\* line 53: half of the grouping frequency
SplitFrequency(w) == w \div 2

OhlcRow_lastVolume(bin, rows) ==
  IF rows = <<>>
  THEN [Datetime |-> bin, Open |-> NaN, High |-> NaN, Low |-> NaN,
        Close |-> NaN, Volume |-> 0]
  ELSE [Datetime |-> bin, Open |-> rows[1].Open,
        High |-> MaxField(rows, "High"), Low |-> MinField(rows, "Low"),
        Close |-> rows[Len(rows)].Close, Volume |-> rows[Len(rows)].Volume]

\* lines 56-62: the aggregate of one Grouper bin; a bin without bars keeps
\* its row, with NaN prices and a Volume sum of 0
OhlcRow(bin, rows) ==
  IF rows = <<>>
  THEN [Datetime |-> bin, Open |-> NaN, High |-> NaN, Low |-> NaN,
        Close |-> NaN, Volume |-> 0]
  ELSE [Datetime |-> bin, Open |-> rows[1].Open,
        High |-> MaxField(rows, "High"), Low |-> MinField(rows, "Low"),
        Close |-> rows[Len(rows)].Close, Volume |-> SumField(rows, "Volume")]

\* lines 56-62: groupby(pd.Grouper(freq=w)).agg(...).reset_index(): one row
\* per bin of width w from the first bar's bin to the last bar's bin, the
\* bins of a gap included
GroupOHLC(d, w) ==
  IF d = <<>> THEN <<>>
  ELSE LET first == Floor(d[1].Datetime, w)
           last == Floor(d[Len(d)].Datetime, w)
           InBin(bin) ==
             LET Test(r) == bin <= r.Datetime /\ r.Datetime < bin + w
             IN  SelectSeq(d, Test)
       IN  [k \in 1..((last - first) \div w + 1) |->
              OhlcRow(first + (k - 1) * w, InBin(first + (k - 1) * w))]

\* lines 69-70: ngroup() of the half-width Grouper, modulo 2.  The Grouper's
\* first bin is the half-width bin holding the first bar, and ngroup counts
\* every bin from there, empty ones included.
SplitOf(t, t0, h) == ((t \div h) - (t0 \div h)) % 2

\* lines 69-71: the Split column, then Datetime floored to the bin
AssignSplit(d, w) ==
  [i \in 1..Len(d) |->
     [Datetime |-> Floor(d[i].Datetime, w), Open |-> d[i].Open,
      High |-> d[i].High, Low |-> d[i].Low, Close |-> d[i].Close,
      Volume |-> d[i].Volume, Typical |-> d[i].Typical, QTYPX |-> d[i].QTYPX,
      Split |-> SplitOf(d[i].Datetime, d[1].Datetime, SplitFrequency(w))]]

\* line 72: df["Volume"].max(), a thousand times volume_divider
VolumeDivisor(d) == MaxField(d, "Volume")

\* line 84: the groups of df.groupby("Datetime"), in key order
Periods(d) == SortedSeq({d[i].Datetime : i \in 1..Len(d)})

PeriodDf(d, p) ==
  LET Test(r) == r.Datetime = p
  IN  SelectSeq(d, Test)

SplitDf(period_df, s) ==
  LET Test(r) == r.Split = s
  IN  SelectSeq(period_df, Test)

\* lines 85-88: per-Split sums, the rows with Volume > 0 kept and
\* renumbered from the top, VWAP = QTY*PX / Volume as the fraction num/den
VwapDf(period_df) ==
  LET splits == SortedSeq({period_df[i].Split : i \in 1..Len(period_df)})
      sums == [i \in 1..Len(splits) |->
                 LET g == SplitDf(period_df, splits[i])
                 IN  [Split |-> splits[i],
                      Volume |-> SumField(g, "Volume"),
                      QTYPX |-> SumField(g, "QTYPX"),
                      VWAP |-> [num |-> SumField(g, "QTYPX"),
                                den |-> SumField(g, "Volume")]]]
      Test(r) == r.Volume > 0
  IN  SelectSeq(sums, Test)

\* (a - b) > m for fractions a, b with positive denominators, m in quarter
\* price units
DiffGt(a, b, m) == a.num * b.den - b.num * a.den > m * a.den * b.den

ColorOf_notional(vwap_df, m) ==
  IF Len(vwap_df) > 1
  THEN IF vwap_df[2].QTYPX - vwap_df[1].QTYPX > 4 * m THEN "green"
       ELSE IF vwap_df[1].QTYPX - vwap_df[2].QTYPX > 4 * m THEN "red"
       ELSE "blue"
  ELSE "blue"

\* lines 89-95: the colour of a period with a non-empty vwap_df
ColorOf(vwap_df, m) ==
  IF Len(vwap_df) > 1
  THEN IF DiffGt(vwap_df[2].VWAP, vwap_df[1].VWAP, 4 * m) THEN "green"
       ELSE IF DiffGt(vwap_df[1].VWAP, vwap_df[2].VWAP, 4 * m) THEN "red"
       ELSE "blue"
  ELSE "blue"

\* lines 96, 99: each bar of split_df repeated round(Volume / volume_divider)
\* times, kept as the bar's typical price and its number of repetitions;
\* divisor is a thousand times volume_divider
Repeated(split_df, divisor) ==
  [j \in 1..Len(split_df) |->
     [Typical |-> split_df[j].Typical,
      repeat |-> RoundHalfEven(split_df[j].Volume * VolumeScale, divisor)]]

\* lines 96-120: the violin traces of one period, one per Split present
Violins(period_df, p, c, divisor) ==
  LET splits == SortedSeq({period_df[i].Split : i \in 1..Len(period_df)})
  IN  [i \in 1..Len(splits) |->
         [x |-> p,
          side |-> IF splits[i] = 0 THEN "negative" ELSE "positive",
          color |-> c,
          y |-> Repeated(SplitDf(period_df, splits[i]), divisor)]]

\* line 137
BarColor(r) == IF r.Open < r.Close THEN "green" ELSE "red"

\* lines 139-154: one Bar trace per BarColor present
VolumeBars(o) ==
  LET cs == {BarColor(o[i]) : i \in 1..Len(o)}
      Of(c) == LET Test(r) == BarColor(r) = c IN SelectSeq(o, Test)
  IN  [c \in cs |->
         [i \in 1..Len(Of(c)) |->
            [x |-> Of(c)[i].Datetime, y |-> Of(c)[i].Volume]]]

\* a local that no statement has assigned yet
Unassigned == [num |-> 0, den |-> 0]

\* lines 84-91 over the whole frame d: the pair <<vwap_open, vwap_close>>
\* when the loop ends, which the last period with two VWAP rows assigned
Headline(d) ==
  LET two == {p \in {d[i].Datetime : i \in 1..Len(d)} :
                Len(VwapDf(PeriodDf(d, p))) > 1}
  IN  IF two = {} THEN <<Unassigned, Unassigned>>
      ELSE LET last == CHOOSE p \in two : \A q \in two : q <= p
               vwap_df == VwapDf(PeriodDf(d, last))
           IN  <<vwap_df[1].VWAP, vwap_df[2].VWAP>>

\* ------------------------------------------------------------- state
VARIABLES pc, ticker, start, end, frequency_value, margin,
          bars, downloads, df, ohlc, volume_divider, todo, color, vwap,
          vwap_open, vwap_close, fig, result

vars == <<pc, ticker, start, end, frequency_value, margin,
          bars, downloads, df, ohlc, volume_divider, todo, color, vwap,
          vwap_open, vwap_close, fig, result>>

params == <<ticker, start, end, frequency_value, margin>>

EmptyFig == [violins |-> <<>>, candlestick |-> <<>>, volume |-> <<>>]

Init ==
  /\ pc = "validate"
  /\ ticker \in Tickers
  /\ start \in Starts
  /\ end \in Ends
  /\ frequency_value \in Widths
  /\ margin \in Margins
  /\ bars = <<>>
  /\ downloads = 0
  /\ df = <<>>
  /\ ohlc = <<>>
  /\ volume_divider = 0
  /\ todo = <<>>
  /\ color = <<>>
  /\ vwap = <<>>
  /\ vwap_open = Unassigned
  /\ vwap_close = Unassigned
  /\ fig = EmptyFig
  /\ result = [kind |-> "none"]

\* an exception raised inside the try block: lines 184-185 turn it into the
\* ValueError the caller sees
Raise(e) ==
  /\ pc' = "raised"
  /\ result' = [kind |-> "raise", error |-> Wrap(e)]

MissingDates_both(s, e) == Falsy(s) /\ Falsy(e)

\* line 17
MissingDates(s, e) == Falsy(s) \/ Falsy(e)

\* lines 16-18
Validate ==
  /\ pc = "validate"
  /\ IF MissingDates(start, end)
     THEN Raise(MissingDatesError)
     ELSE pc' = "download" /\ UNCHANGED result
  /\ UNCHANGED <<params, bars, downloads, df, ohlc, volume_divider, todo,
                 color, vwap, vwap_open, vwap_close, fig>>

DfEmpty_never(d) == FALSE

\* line 29: df.empty
DfEmpty(d) == Len(d) = 0

\* lines 20-49: the collaborator answers with any time-ordered bar sequence;
\* an empty one is rejected, any other gets its Typical and QTY*PX columns
Download ==
  /\ pc = "download"
  /\ downloads' = downloads + 1
  /\ \E b \in BarSeqs :
       /\ bars' = b
       /\ IF DfEmpty(b)
          THEN Raise(NoDataError(ticker, start, end)) /\ df' = b
          ELSE /\ df' = WithTypical(b)
               /\ pc' = "group"
               /\ UNCHANGED result
  /\ UNCHANGED <<params, ohlc, volume_divider, todo, color, vwap, vwap_open,
                 vwap_close, fig>>

\* lines 52-72: the OHLC series, then the Split column and the floored
\* Datetime; todo holds the groups the loop of line 84 will visit
Group ==
  /\ pc = "group"
  /\ ohlc' = GroupOHLC(df, frequency_value)
  /\ IF Len(ohlc') = 0
     THEN /\ Raise(AggregationEmptyError(ticker))
          /\ UNCHANGED <<df, volume_divider, todo>>
     ELSE /\ df' = AssignSplit(df, frequency_value)
          /\ volume_divider' = VolumeDivisor(df)
          /\ todo' = Periods(df')
          /\ pc' = "loop"
          /\ UNCHANGED result
  /\ UNCHANGED <<params, bars, downloads, color, vwap, vwap_open, vwap_close,
                 fig>>

\* lines 84-120: one iteration of the loop over the periods
LoopPeriod ==
  /\ pc = "loop"
  /\ todo # <<>>
  /\ LET period == Head(todo)
         period_df == PeriodDf(df, period)
         vwap_df == VwapDf(period_df)
         c == ColorOf(vwap_df, margin)
     IN  /\ vwap' = Append(vwap, [period |-> period, vwap_df |-> vwap_df])
         /\ IF vwap_df # <<>>
            THEN /\ color' = Append(color, [period |-> period, color |-> c])
                 /\ fig' = [fig EXCEPT !.violins =
                              @ \o Violins(period_df, period, c,
                                           volume_divider)]
            ELSE UNCHANGED <<color, fig>>
         /\ IF Len(vwap_df) > 1
            THEN /\ vwap_open' = vwap_df[1].VWAP
                 /\ vwap_close' = vwap_df[2].VWAP
            ELSE UNCHANGED <<vwap_open, vwap_close>>
  /\ todo' = Tail(todo)
  /\ UNCHANGED <<pc, params, bars, downloads, df, ohlc, volume_divider,
                 result>>

\* lines 122-182: the candlestick and the volume bars, then the return of
\* the tuple (fig, vwap_open, vwap_close, last OHLC record); result holds
\* its last three members, fig is its first
Return ==
  /\ pc = "loop"
  /\ todo = <<>>
  /\ fig' = [fig EXCEPT !.candlestick = ohlc, !.volume = VolumeBars(ohlc)]
  /\ IF vwap_open = Unassigned
     THEN Raise(UnboundLocalError)
     ELSE /\ pc' = "returned"
          /\ result' = [kind |-> "return",
                        vwap_open |-> vwap_open, vwap_close |-> vwap_close,
                        ohlc |-> ohlc[Len(ohlc)]]
  /\ UNCHANGED <<params, bars, downloads, df, ohlc, volume_divider, todo,
                 color, vwap, vwap_open, vwap_close>>

Next ==
  \/ Validate
  \/ Download
  \/ Group
  \/ LoopPeriod
  \/ Return

Spec == Init /\ [][Next]_vars

Done == pc \in {"returned", "raised"}

\* ------------------------------------------------------------- claims
\* the chronological half of its bin a timestamp lies in: 0 first, 1 second
ChronHalf(t, w) == IF t - Floor(t, w) < w \div 2 THEN 0 ELSE 1

\* the downloaded bars of one chronological half of the bin starting at bin
HalfBars(bin, half) ==
  LET Test(r) == /\ Floor(r.Datetime, frequency_value) = bin
                 /\ ChronHalf(r.Datetime, frequency_value) = half
  IN  SelectSeq(WithTypical(bars), Test)

HalfVolume(bin, half) == SumField(HalfBars(bin, half), "Volume")

HalfVWAP(bin, half) ==
  [num |-> SumField(HalfBars(bin, half), "QTYPX"), den |-> HalfVolume(bin, half)]

\* the total downloaded volume of the bin starting at bin
BinVolume(bin) ==
  LET Test(r) == Floor(r.Datetime, frequency_value) = bin
  IN  SumField(SelectSeq(bars, Test), "Volume")

BothHalves(bin) == HalfVolume(bin, 0) > 0 /\ HalfVolume(bin, 1) > 0

Bins == {Floor(bars[i].Datetime, frequency_value) : i \in 1..Len(bars)}

\* equality of two fractions
RatEq(a, b) == a.num * b.den = b.num * a.den

Contains(msg, x) == \E i \in 1..Len(msg) : msg[i] = x

RaisedValueError ==
  /\ pc = "raised"
  /\ result.kind = "raise"
  /\ result.error.type = "ValueError"
  /\ Len(result.error.msg) > 0

\* C1: on every successful return, vwap_open and vwap_close are the
\* first-half and second-half VWAP of the final bin, the bin of the returned
\* last OHLC record, never values carried over from an earlier bin.
C1_HeadlineIsFinalBin ==
  pc = "returned" =>
    LET bin == result.ohlc.Datetime
    IN  /\ BothHalves(bin)
        /\ RatEq(result.vwap_open, HalfVWAP(bin, 0))
        /\ RatEq(result.vwap_close, HalfVWAP(bin, 1))

\* C2: every bin of the aggregated OHLC series (the series of the
\* candlestick and volume traces, whose last record is returned) has total
\* volume > 0.
C2_OhlcVolumePositive ==
  /\ \A i \in 1..Len(ohlc) : ohlc[i].Volume > 0
  /\ \A i \in 1..Len(fig.candlestick) : fig.candlestick[i].Volume > 0
  /\ pc = "returned" => result.ohlc.Volume > 0

\* C3: when the download returns an empty bar sequence the call raises a
\* ValueError whose message names the ticker and the start/end range; it
\* never goes on to build a chart and never returns.
C3_EmptyDownloadRaisesNoData ==
  (downloads > 0 /\ bars = <<>>) =>
    /\ fig = EmptyFig
    /\ ohlc = <<>>
    /\ RaisedValueError
    /\ Contains(result.error.msg, "No data returned for ")
    /\ Contains(result.error.msg, ticker)
    /\ Contains(result.error.msg, start)
    /\ Contains(result.error.msg, end)

C3_Witness == pc = "raised" /\ downloads = 1 /\ bars = <<>>

\* C4: when start or end is absent (None or empty) the call is rejected
\* before acquisition: the download is never invoked and nothing is returned.
C4_MissingDatesRejectedBeforeDownload ==
  (Falsy(start) \/ Falsy(end)) =>
    /\ downloads = 0
    /\ pc \in {"validate", "raised"}
    /\ pc = "raised" =>
         /\ RaisedValueError
         /\ Contains(result.error.msg, "Start and End dates must be provided.")

C4_Witness ==
  /\ pc = "raised"
  /\ ~Falsy(start)
  /\ Falsy(end)
  /\ downloads = 0

\* C5: when no bin has positive total volume the call is rejected with the
\* Aggregation-Empty error, whose message suggests a different date range or
\* frequency.
C5_ZeroVolumeRaisesAggregationEmpty ==
  (Done /\ bars # <<>> /\ \A b \in Bins : BinVolume(b) = 0) =>
    /\ RaisedValueError
    /\ Contains(result.error.msg,
                ". Try using a different date range or frequency.")

\* C6: every failure reaches the caller as a ValueError with a message, no
\* other exception type escapes; when no bin has both halves with positive
\* volume the call fails with a ValueError instead of returning.
C6_OnlyValueErrorEscapes ==
  /\ pc = "raised" => RaisedValueError
  /\ result.kind = "raise" => pc = "raised"
  /\ (Done /\ bars # <<>> /\ \A b \in Bins : ~BothHalves(b)) => RaisedValueError

C6_Witness ==
  /\ pc = "raised"
  /\ bars # <<>>
  /\ \E b \in Bins : BinVolume(b) > 0
  /\ \A b \in Bins : ~BothHalves(b)
  /\ vwap_open = Unassigned

\* C7: the Split parity of every bar is 0 exactly when its timestamp lies in
\* the chronologically first half of its bin and 1 exactly when it lies in
\* the second half.
C7_SplitIsChronologicalHalf ==
  pc \in {"loop", "returned"} =>
    \A i \in 1..Len(df) :
      df[i].Split = ChronHalf(bars[i].Datetime, frequency_value)

\* the colour the claim C8 gives a bin
ClaimedColor(bin) ==
  IF BothHalves(bin) /\ DiffGt(HalfVWAP(bin, 1), HalfVWAP(bin, 0), 4 * margin)
  THEN "green"
  ELSE IF BothHalves(bin)
          /\ DiffGt(HalfVWAP(bin, 0), HalfVWAP(bin, 1), 4 * margin)
  THEN "red"
  ELSE "blue"

\* C8: every bin with positive total volume is green iff both halves have
\* positive volume and second-half VWAP - first-half VWAP > margin, red iff
\* both have and first-half VWAP - second-half VWAP > margin, blue otherwise.
C8_ColorByChronologicalHalves ==
  ((pc = "loop" /\ todo = <<>>) \/ pc = "returned") =>
    \A b \in Bins :
      BinVolume(b) > 0 =>
        \E i \in 1..Len(color) :
          color[i].period = b /\ color[i].color = ClaimedColor(b)

\* C9: the Volume values of the aggregated OHLC series sum to the input
\* volume of the bins with positive total volume, and every input bar lies
\* in exactly one bin of the series.
C9_VolumeConserved ==
  pc \in {"loop", "returned"} =>
    /\ SumField(ohlc, "Volume") =
         SumField(SelectSeq(bars,
                    LAMBDA r : BinVolume(Floor(r.Datetime, frequency_value)) > 0),
                  "Volume")
    /\ \A i \in 1..Len(bars) :
         Cardinality({k \in 1..Len(ohlc) :
                        /\ ohlc[k].Datetime <= bars[i].Datetime
                        /\ bars[i].Datetime < ohlc[k].Datetime + frequency_value})
           = 1

C9_Witness ==
  /\ pc = "returned"
  /\ \E k \in 1..Len(ohlc) : ohlc[k].Volume = 0
  /\ \E k \in 1..Len(ohlc) : ohlc[k].Volume > 1

\* the downloaded bars with every volume multiplied by k
Scaled(k) == [i \in 1..Len(bars) |-> [bars[i] EXCEPT !.Volume = k * @]]

ScaledFrame(k) == AssignSplit(WithTypical(Scaled(k)), frequency_value)

\* C10: multiplying every volume by the same positive constant leaves every
\* half-bin VWAP, every bin's colour and the headline vwap_open/vwap_close
\* unchanged.
C10_VolumeScaleInvariant ==
  /\ (pc = "loop" /\ todo = <<>>) =>
       \A k \in 2..MaxScale : \A d \in {ScaledFrame(k)} : \A h \in {Headline(d)} :
         /\ \A i \in 1..Len(vwap) :
              \A u \in {vwap[i].vwap_df} :
                \A v \in {VwapDf(PeriodDf(d, vwap[i].period))} :
                  /\ Len(v) = Len(u)
                  /\ \A j \in 1..Len(u) :
                       v[j].Split = u[j].Split /\ RatEq(v[j].VWAP, u[j].VWAP)
                  /\ u # <<>> =>
                       \E j \in 1..Len(color) :
                         /\ color[j].period = vwap[i].period
                         /\ color[j].color = ColorOf(v, margin)
         /\ (vwap_open = Unassigned) = (h[1] = Unassigned)
         /\ RatEq(h[1], vwap_open)
         /\ RatEq(h[2], vwap_close)
  /\ pc = "returned" =>
       \* the returned headline is the one the loop left
       /\ result.vwap_open = vwap_open
       /\ result.vwap_close = vwap_close
       /\ vwap_open # Unassigned

C10_Witness ==
  /\ pc = "returned"
  /\ \E i \in 1..Len(color) : color[i].color = "green"
  /\ \E i \in 1..Len(color) : color[i].color = "blue"

====
